---- MODULE Spec2Model ----
(***************************************************************************)
(* A model of the vdfs archive packer (src/src/main.rs, src/src/vdfs/).    *)
(*                                                                         *)
(* The program walks a directory, builds a sorted FileSystemNode tree,     *)
(* flattens it breadth-first into a catalog of fixed-width entries plus a  *)
(* data buffer, computes file offsets and header totals, and writes        *)
(* header, catalog and data to the output file.                            *)
(*                                                                         *)
(* Conventions                                                             *)
(*  - A file or directory name is a sequence of character codes (ASCII).   *)
(*  - A path is the sequence of names below the archive's root directory.  *)
(*  - A u32 or u64 value is a pair <<hi, lo>> of base-2^16 limbs, value    *)
(*    hi * 2^16 + lo with lo < 2^16.  A u32 has hi < 2^16.  This keeps the *)
(*    32-bit width of the program's integers (truncating casts, wrapping   *)
(*    or panicking additions) within the model checker's integer range.    *)
(*  - The bytes of a file are symbolic: a chunk [src |-> path, len |-> n]  *)
(*    stands for the n bytes of the file at that path, in order.           *)
(***************************************************************************)
EXTENDS Integers, Sequences, FiniteSets, TLC

VARIABLES
    disk,           \* the directory tree on disk below the root: path -> [kind, len]
    pc,             \* position of the program
    exit_code,      \* process exit status (0 while running or on success)
    overflow_checks,\* build profile: TRUE panics on integer overflow, FALSE wraps
    path_filter,    \* from_script: Vec<Vec<String>> of accepted component sequences
    filtered,       \* TRUE when the tree was built by build_file_system_tree_filtered
    header,         \* Vdfs.header
    fs,             \* Vdfs.fs, the FileSystemNode tree
    catalog_dirs,   \* Vdfs.catalog_dirs
    data,           \* Vdfs.data, a sequence of chunks
    curr_pos,       \* Vdfs.curr_pos
    queue,          \* build_catalog: the VecDeque of the running pass
    index,          \* build_catalog: `index` of pass 1, `i` of pass 2
    out_file,       \* the bytes written by save_to_file, a sequence of chunks
    args,           \* the command line and the script the program was started with
    unreadable,     \* the directories whose read_dir fails
    diagnostics,    \* the lines printed to stdout and stderr, in order
    first_run       \* catalog and data of an earlier run, when the build is run again

vars == << disk, pc, exit_code, overflow_checks, path_filter, filtered, header,
           fs, catalog_dirs, data, curr_pos, queue, index, out_file,
           args, unreadable, diagnostics, first_run >>

----------------------------------------------------------------------------
(* Bounds of the model *)

\* most files and directories below the root
MaxNodes == 3
\* deepest nesting below the root (a child of the root has one component)
MaxDepth == 2

\* "a", "A", "B": two names that differ only in case, and a third that sorts
\* between them by byte and after them without regard to case
NameList == << <<97>>, <<65>>, <<66>> >>

Names == { NameList[k] : k \in DOMAIN NameList }

\* name of the root directory itself ("r")
RootName == <<114>>

----------------------------------------------------------------------------
(* 32/64-bit integers as limb pairs *)

Limb == 2 ^ 16

W(n) == << n \div Limb, n % Limb >>

WAdd(a, b) ==
    LET lo == a[2] + b[2]
    IN  << a[1] + b[1] + (lo \div Limb), lo % Limb >>

WLess(a, b) == a[1] < b[1] \/ (a[1] = b[1] /\ a[2] < b[2])

WLeq(a, b) == a = b \/ WLess(a, b)

\* `x as u32` of a wider unsigned value: the low 32 bits
AsU32(x) == << x[1] % Limb, x[2] >>

\* `x as u32` of a small i32: two's complement
\* A cast that turns a negative number into 0
I32AsU32_clamped(x) == IF x >= 0 THEN W(x) ELSE W(0)

I32AsU32(x) == IF x >= 0 THEN W(x) ELSE << Limb - 1, Limb + x >>

Overflows32(x) == x[1] >= Limb

\* File lengths on disk (u64).  Small files: 3 bytes
FileLens == { <<0, 3>> }

\* Small and large files: 3 bytes, 2^31 bytes, 2^32 + 5 bytes
LargeFileLens == { <<0, 3>>, <<32768, 0>>, <<65536, 5>> }

----------------------------------------------------------------------------
(* The directory tree on disk *)

Paths == DOMAIN disk

Root == << >>

IsDirOnDisk(p) == p = Root \/ (p \in Paths /\ disk[p].kind = "dir")

\* Path::is_file
is_file(p) == p \in Paths /\ disk[p].kind = "file"

\* Path::file_name
file_name(p) == IF p = Root THEN RootName ELSE p[Len(p)]

Reverse(s) == [k \in 1..Len(s) |-> s[Len(s) + 1 - k]]

\* "DEFAULT.VDF"
DefaultVdf == << 68, 69, 70, 65, 85, 76, 84, 46, 86, 68, 70 >>

\* The orders in which the file system may enumerate the entries of a directory
EnumOrders == { NameList \o << DefaultVdf >>, Reverse(NameList \o << DefaultVdf >>) }

\* std::fs::read_dir: the names in `p`, in the file system's enumeration order;
\* the empty sequence stands for the Err the callers treat as "no entries"
read_dir(p, order, bad) ==
    IF p \in bad
    THEN << >>
    ELSE SelectSeq(order, LAMBDA n : Append(p, n) \in Paths)

----------------------------------------------------------------------------
(* Names and their comparison *)

\* char::to_ascii_uppercase / to_uppercase on ASCII
UpperChar(c) == IF c >= 97 /\ c <= 122 THEN c - 32 ELSE c

to_uppercase(s) == [k \in 1..Len(s) |-> UpperChar(s[k])]

eq_ignore_ascii_case(a, b) == to_uppercase(a) = to_uppercase(b)

\* Ord for str: lexicographic by byte
RECURSIVE StrCmp(_, _)
StrCmp(a, b) ==
    IF a = << >> THEN (IF b = << >> THEN "Equal" ELSE "Less")
    ELSE IF b = << >> THEN "Greater"
    ELSE IF a[1] < b[1] THEN "Less"
    ELSE IF a[1] > b[1] THEN "Greater"
    ELSE StrCmp(Tail(a), Tail(b))

----------------------------------------------------------------------------
(* filetree.rs: the tree builder *)

FileNode(name, path, lvl) ==
    [kind |-> "File", name |-> name, path |-> path, children |-> << >>,
     level |-> lvl, is_last |-> FALSE]

DirectoryNode(name, path, children, lvl) ==
    [kind |-> "Directory", name |-> name, path |-> path, children |-> children,
     level |-> lvl, is_last |-> FALSE]

\* A comparison that takes the names as they are, case included
cmp_file_system_nodes_cased(a, b) ==
    IF a.kind = "Directory" /\ b.kind = "File" THEN "Less"
    ELSE IF a.kind = "File" /\ b.kind = "Directory" THEN "Greater"
    ELSE StrCmp(a.name, b.name)

cmp_file_system_nodes(a, b) ==
    IF a.kind = "Directory" /\ b.kind = "File" THEN "Less"
    ELSE IF a.kind = "File" /\ b.kind = "Directory" THEN "Greater"
    ELSE StrCmp(to_uppercase(a.name), to_uppercase(b.name))

\* One step of a stable sort: x goes after every element that is not Greater
insert_sorted(sorted, x) ==
    LET keep == { k \in 1..Len(sorted) : cmp_file_system_nodes(sorted[k], x) # "Greater" }
        n == Cardinality(keep)
    IN  SubSeq(sorted, 1, n) \o << x >> \o SubSeq(sorted, n + 1, Len(sorted))

\* children.sort_by(FileSystemNode::cmp_file_system_nodes): a stable sort
RECURSIVE sort_by(_)
sort_by(s) ==
    IF s = << >> THEN << >>
    ELSE insert_sorted(sort_by(SubSeq(s, 1, Len(s) - 1)), s[Len(s)])

\* A mark_last that flags the first child instead of the last
mark_first(children) ==
    [k \in 1..Len(children) |->
        IF k = 1 THEN [children[k] EXCEPT !.is_last = TRUE]
        ELSE children[k]]

\* if let Some(last_node) = children.last_mut() { *is_last = true }
mark_last(children) ==
    [k \in 1..Len(children) |->
        IF k = Len(children) THEN [children[k] EXCEPT !.is_last = TRUE]
        ELSE children[k]]

RECURSIVE build_file_system_tree(_, _, _, _)
build_file_system_tree(path, lvl, order, bad) ==
    IF is_file(path)
    THEN FileNode(file_name(path), path, lvl)
    ELSE LET entries == read_dir(path, order, bad)
             children == [k \in 1..Len(entries) |->
                            build_file_system_tree(Append(path, entries[k]), lvl + 1, order, bad)]
         IN  DirectoryNode(file_name(path), path, mark_last(sort_by(children)), lvl)

\* An is_on_level that accepts a name found at any depth of a filter sequence
is_on_level_any_depth(filters, search_term, level) ==
    \/ level = -1
    \/ \E filter \in filters : \E k \in 1..Len(filter) :
          eq_ignore_ascii_case(filter[k], search_term)

\* mod.rs: is a name accepted at this depth by some filter sequence
is_on_level(filters, search_term, level) ==
    \/ level = -1
    \/ \E filter \in filters :
          /\ Len(filter) > level
          /\ eq_ignore_ascii_case(filter[level + 1], search_term)

RECURSIVE Flatten(_)
Flatten(ss) == IF ss = << >> THEN << >> ELSE Head(ss) \o Flatten(Tail(ss))

\* Option<FileSystemNode>: << >> is None, << node >> is Some(node)
RECURSIVE build_file_system_tree_filtered_rec(_, _, _, _, _)
build_file_system_tree_filtered_rec(path, lvl, filter, order, bad) ==
    IF is_file(path)
    THEN IF is_on_level(filter, file_name(path), lvl)
         THEN << FileNode(file_name(path), path, lvl) >>
         ELSE << >>
    ELSE IF is_on_level(filter, file_name(path), lvl)
         THEN LET entries == read_dir(path, order, bad)
                  children == Flatten([k \in 1..Len(entries) |->
                        build_file_system_tree_filtered_rec(
                            Append(path, entries[k]), lvl + 1, filter, order, bad)])
              IN  << DirectoryNode(file_name(path), path, mark_last(sort_by(children)), lvl) >>
         ELSE << >>

\* The public entry point; the caller has established that `path` is no file
build_file_system_tree_filtered(path, lvl, filter, order, bad) ==
    LET entries == read_dir(path, order, bad)
        children == Flatten([k \in 1..Len(entries) |->
              build_file_system_tree_filtered_rec(
                  Append(path, entries[k]), lvl + 1, filter, order, bad)])
    IN  DirectoryNode(file_name(path), path, mark_last(sort_by(children)), lvl)

----------------------------------------------------------------------------
(* mod.rs: header and catalog entries *)

\* VDFSHeader.comment is [u8; 256], VDFSCatalogEntry.name is [u8; 64]
CommentWidth == 256
NameWidth == 64

\* A byte array [u8; width] that holds the bytes of `text` and then the byte
\* `fill` up to its width
ByteArray(text, fill, width) == [text |-> text, fill |-> fill, width |-> width]

\* a[..bytes.len()].copy_from_slice(bytes), for bytes that fit the array
copy_from_slice(a, bytes) ==
    [a EXCEPT !.text = bytes \o SubSeq(a.text, Len(bytes) + 1, Len(a.text))]
\* header.catalog_offset, the width of one catalog record, header.version
CatalogOffset == 296
EntryWidth == 80
Version == 80

\* enum EntryType
EntryType_Dir == << 32768, 0 >>        \* 0x80000000
EntryType_LastFile == << 16384, 0 >>   \* 0x40000000

RECURSIVE BitOr(_, _)
BitOr(a, b) ==
    IF a = 0 THEN b
    ELSE IF b = 0 THEN a
    ELSE (IF a % 2 = 1 \/ b % 2 = 1 THEN 1 ELSE 0) + 2 * BitOr(a \div 2, b \div 2)

\* `x | y` on u32
U32Or(x, y) == << BitOr(x[1], y[1]), BitOr(x[2], y[2]) >>

\* The wall clock read by get_current_dos_time: <<year, month, day, hour, minute, second>>
Clocks == { << 2026, 11, 4, 12, 30, 59 >> }

\* The packed DOS date-time; the date fields fill the high limb, the time fields the low
get_current_dos_time(t) ==
    << (((t[1] - 1980) % 128) * 512 + t[2] * 32 + t[3]) % Limb,
       (t[4] * 2048 + t[5] * 32 + (t[6] \div 2)) % Limb >>

Signature == << 80, 83, 86, 68, 83, 67, 95, 86, 50, 46, 48, 48, 10, 13, 10, 13 >>

VDFSHeader_default(t) ==
    [comment |-> ByteArray(<< >>, 26, CommentWidth),
     signature |-> Signature,
     num_files |-> W(0),
     num_entries |-> W(0),
     timestamp |-> get_current_dos_time(t),
     size |-> W(0),
     catalog_offset |-> W(0),
     version |-> W(Version)]

VDFSCatalogEntry_default ==
    [name_utf8 |-> << >>,
     name |-> ByteArray(<< >>, 32, NameWidth),
     next_index |-> W(0),
     size |-> W(0),
     typ |-> W(0),
     attributes |-> W(0),
     parent_id |-> 0,
     is_dir |-> FALSE]

\* name[..file_name.len()].copy_from_slice(upper-cased bytes); needs len <= 64
name_field(file_name_) ==
    copy_from_slice(VDFSCatalogEntry_default.name, to_uppercase(file_name_))

VDFSCatalogEntry_new(file_name_) ==
    [VDFSCatalogEntry_default EXCEPT !.name = name_field(file_name_),
                                     !.name_utf8 = file_name_]

VDFSCatalogEntry_new_sized(file_name_, size) ==
    [VDFSCatalogEntry_default EXCEPT !.name = name_field(file_name_),
                                     !.name_utf8 = file_name_,
                                     !.size = AsU32(size)]

----------------------------------------------------------------------------
(* Process exit *)

\* The status the parent sees of exit(code): its low 8 bits
ExitStatus(code) == code % 256

\* An exit that reports success whatever the code
Halt_success(code) ==
    /\ pc' = "exit"
    /\ exit_code' = 0

Halt(code) ==
    /\ pc' = "exit"
    /\ exit_code' = ExitStatus(code)

\* A Rust panic prints its message and ends the process with status 101
Panic ==
    /\ Halt(101)
    /\ diagnostics' = Append(diagnostics, "thread 'main' panicked")

\* u32 addition: the wrapped sum and whether it overflowed
U32Add(a, b) ==
    LET exact == WAdd(a, b)
    IN  [val |-> AsU32(exact), overflow |-> Overflows32(exact)]

----------------------------------------------------------------------------
(* main.rs, script/mod.rs: the command line and the script *)

\* Where the archive goes: into the input directory (legacy mode without -o), to
\* the path of -o, or to the file_path of the script ("o" and "s" stand for these)
OutDefault == [inside |-> TRUE, path |-> << DefaultVdf >>]
OutOverride == [inside |-> FALSE, path |-> << <<111>> >>]
OutScript == [inside |-> FALSE, path |-> << <<115>> >>]

\* A directory "../e" beside the root; nothing in it can be listed
Elsewhere == << <<46, 46>>, <<101>> >>

\* Args (base_directory, output_file) and VdfsScript (base_dir, file_path).  An
\* Option is << >> for None and << v >> for Some(v); an empty PathBuf of the
\* script is << >> as well.  mode says what the input is: a directory ("dir") or
\* a script file ("script"); "none" before the program has started.
MakeArgs(mode, base_directory, output_file, base_dir, file_path) ==
    [mode |-> mode, base_directory |-> base_directory, output_file |-> output_file,
     base_dir |-> base_dir, file_path |-> file_path]

NoArgs == MakeArgs("none", << >>, << >>, << >>, << >>)

None == << >>

Some(S) == { << v >> : v \in S }

\* Legacy mode with the output files of `outs`
LegacyArgs(outs) == { MakeArgs("dir", None, o, None, None) : o \in outs }

\* Script mode: overrides of `bds` and `outs`, a script with `sbs` and `sfs`
ScriptArgs(bds, outs, sbs, sfs) ==
    { MakeArgs("script", b, o, sb, sf) : b \in bds, o \in outs, sb \in sbs, sf \in sfs }

\* A choice that lets the script's value win over the override
base_dir_used_script_first(a) ==
    IF a.base_dir # None THEN a.base_dir[1] ELSE a.base_directory[1]

\* match base_dir_override { Some(pb) => pb, None => &script.base_dir }
base_dir_used(a) ==
    IF a.base_directory # None THEN a.base_directory[1] ELSE a.base_dir[1]

\* main: args.output_file or <input>/DEFAULT.VDF; from_script:
\* match output_file_override { Some(o) => o, None => &script.file_path }
output_file_used(a) ==
    IF a.output_file # None THEN a.output_file[1]
    ELSE IF a.mode = "dir" THEN OutDefault
    ELSE a.file_path[1]

----------------------------------------------------------------------------
(* The environment: files and directories created before the program runs *)

InitWith(profiles) ==
    /\ disk = << >>
    /\ pc = "setup"
    /\ exit_code = 0
    /\ overflow_checks \in profiles
    /\ path_filter = {}
    /\ filtered = FALSE
    /\ header = VDFSHeader_default(CHOOSE t \in Clocks : TRUE)
    /\ fs = DirectoryNode(RootName, Root, << >>, -1)
    /\ catalog_dirs = << >>
    /\ data = << >>
    /\ curr_pos = W(0)
    /\ queue = << >>
    /\ index = -1
    /\ out_file = << >>
    /\ args = NoArgs
    /\ unreadable = {}
    /\ diagnostics = << >>
    /\ first_run = << >>

\* A release build: integer overflow wraps
Init == InitWith({FALSE})

\* A release or a debug build
InitSizes == InitWith(BOOLEAN)

program_vars == << exit_code, overflow_checks, path_filter, filtered, header, fs,
                   catalog_dirs, data, curr_pos, queue, index, out_file,
                   args, unreadable, diagnostics, first_run >>

CanCreate(p, n, max_nodes, max_depth) ==
    /\ Cardinality(Paths) < max_nodes
    /\ Len(p) < max_depth
    /\ IsDirOnDisk(p)
    /\ Append(p, n) \notin Paths

CreateDirIn(max_nodes, max_depth) ==
    /\ pc = "setup"
    /\ \E p \in Paths \cup {Root}, n \in Names :
          /\ CanCreate(p, n, max_nodes, max_depth)
          /\ disk' = (Append(p, n) :> [kind |-> "dir", len |-> W(0)]) @@ disk
    /\ UNCHANGED << pc, program_vars >>

CreateFileIn(max_nodes, max_depth, lens) ==
    /\ pc = "setup"
    /\ \E p \in Paths \cup {Root}, n \in Names, l \in lens :
          /\ CanCreate(p, n, max_nodes, max_depth)
          /\ disk' = (Append(p, n) :> [kind |-> "file", len |-> l]) @@ disk
    /\ UNCHANGED << pc, program_vars >>

CreateDir == CreateDirIn(MaxNodes, MaxDepth)

CreateFile == CreateFileIn(MaxNodes, MaxDepth, FileLens)

\* Files of any of the large lengths
CreateLargeFile == CreateFileIn(MaxNodes, MaxDepth, LargeFileLens)

\* One more node and one more level
CreateDirWide == CreateDirIn(MaxNodes + 1, MaxDepth + 1)

CreateFileWide == CreateFileIn(MaxNodes + 1, MaxDepth + 1, FileLens)

\* One node less and one level less
CreateDirFew == CreateDirIn(MaxNodes - 1, MaxDepth - 1)

CreateFileFew == CreateFileIn(MaxNodes - 1, MaxDepth - 1, FileLens)

\* The sets of directories whose read_dir fails: none, or any one directory (an
\* empty directory that cannot be read looks like one that can)
UnreadableSets ==
    { {} } \cup { {p} : p \in { q \in Paths \cup {Root} :
                                  \E n \in Names : Append(q, n) \in Paths } }

----------------------------------------------------------------------------
(* main.rs, legacy mode: Vdfs::from_dir up to the start of build_catalog *)

\* The program is started on the root directory with one of the command lines
\* of `argset`; started again ("rerun"), it gets the command line and the
\* unreadable directories of the first run
FromDirWith(argset) ==
    /\ pc \in {"setup", "rerun"}
    /\ \E a \in (IF pc = "rerun" THEN {args} ELSE argset),
          bad \in (IF pc = "rerun" THEN {unreadable} ELSE UnreadableSets),
          order \in EnumOrders, t \in Clocks :
          /\ args' = a
          /\ unreadable' = bad
          /\ header' = VDFSHeader_default(t)
          /\ fs' = build_file_system_tree(Root, -1, order, bad)
          /\ queue' = << << -1, fs' >> >>
    /\ index' = -1
    /\ catalog_dirs' = << >>
    /\ data' = << >>
    /\ curr_pos' = W(0)
    /\ filtered' = FALSE
    /\ pc' = "pass1"
    /\ UNCHANGED << disk, exit_code, overflow_checks, path_filter, out_file,
                    diagnostics, first_run >>

\* Without -o
FromDir == FromDirWith(LegacyArgs({None}))

\* With or without -o
FromDirAnyOutput == FromDirWith(LegacyArgs({None} \cup Some({OutOverride})))

----------------------------------------------------------------------------
(* mod.rs, script mode: Vdfs::from_script up to the start of build_catalog *)

\* Two paths that differ at most in the case of their letters
SamePathIgnoreCase(p, q) ==
    /\ Len(p) = Len(q)
    /\ \A k \in 1..Len(p) : eq_ignore_ascii_case(p[k], q[k])

\* The paths glob can reach: every ancestor directory can be listed
Reachable(bad) ==
    { q \in Paths : \A k \in 0..(Len(q) - 1) : SubSeq(q, 1, k) \notin bad }

\* What the include patterns of a script can expand to.  Every pattern is made
\* case-insensitive (case_insensitive_globify) and expanded against the disk, so
\* the result is a set of existing paths that holds, with a path, every existing
\* path that differs from it only in case.  path_filter is a Vec; is_on_level only
\* asks whether some element matches, so the model keeps the set of its elements.
GlobResults(bad) ==
    { f \in SUBSET Reachable(bad) :
        \A p \in f : \A q \in Reachable(bad) : SamePathIgnoreCase(p, q) => q \in f }

\* The base directory a script or an override may name: the root, or a file in it
BaseDirs == {Root} \cup { p \in Paths : Len(p) = 1 /\ is_file(p) }

\* from_script ends in exit(1): no base directory, no output path, or (in
\* build_file_system_tree_filtered) a base directory that is a file
FromScriptUsageErrorWith(argset) ==
    /\ pc = "setup"
    /\ \E a \in argset :
          /\ args' = a
          /\ IF a.base_dir = None /\ a.base_directory = None
             THEN diagnostics' = << "[INFO] Generating archive",
                                    "[ERROR] Empty base directory path" >>
             ELSE IF a.file_path = None /\ a.output_file = None
             THEN diagnostics' = << "[INFO] Generating archive",
                                    "[ERROR] Empty output path" >>
             ELSE /\ is_file(base_dir_used(a))
                  /\ diagnostics' = << "[INFO] Generating archive",
                                       "[ERROR] You cannot add a single file" >>
    /\ Halt(1)
    /\ UNCHANGED << disk, overflow_checks, path_filter, filtered, header, fs,
                    catalog_dirs, data, curr_pos, queue, index, out_file,
                    unreadable, first_run >>

\* from_script passes its checks (a base directory and an output path are given
\* by the script or by an override, and the base directory is no file).  The
\* patterns are expanded below the base directory.
FromScriptWith(argset) ==
    /\ pc = "setup"
    /\ \E a \in argset :
          /\ a.base_dir # None \/ a.base_directory # None
          /\ a.file_path # None \/ a.output_file # None
          /\ ~is_file(base_dir_used(a))
          /\ args' = a
          /\ \E bad \in (IF base_dir_used(a) = Root THEN UnreadableSets ELSE { {} }),
                order \in EnumOrders, t \in Clocks :
             \E globbed \in (IF base_dir_used(a) = Root THEN GlobResults(bad) ELSE { {} }) :
                /\ unreadable' = bad
                /\ path_filter' = globbed
                /\ header' = VDFSHeader_default(t)
                /\ fs' = build_file_system_tree_filtered(base_dir_used(a), -1, globbed,
                                                         order, bad)
                /\ queue' = << << -1, fs' >> >>
    /\ diagnostics' = << "[INFO] Generating archive" >>
    /\ index' = -1
    /\ catalog_dirs' = << >>
    /\ data' = << >>
    /\ curr_pos' = W(0)
    /\ filtered' = TRUE
    /\ pc' = "pass1"
    /\ UNCHANGED << disk, exit_code, overflow_checks, out_file, first_run >>

\* A script that names an output file and, or not, a base directory; no overrides
ScriptArgsPlain == ScriptArgs({None}, {None}, {None} \cup Some(BaseDirs), Some({OutScript}))

\* Every combination of script values and overrides
ScriptArgsAll ==
    ScriptArgs({None} \cup Some(BaseDirs \cup {Elsewhere}), {None} \cup Some({OutOverride}),
               {None} \cup Some(BaseDirs \cup {Elsewhere}), {None} \cup Some({OutScript}))

FromScriptUsageError == FromScriptUsageErrorWith(ScriptArgsPlain)

FromScript == FromScriptWith(ScriptArgsPlain)

FromScriptUsageErrorAny == FromScriptUsageErrorWith(ScriptArgsAll)

FromScriptAny == FromScriptWith(ScriptArgsAll)

----------------------------------------------------------------------------
(* mod.rs: Vdfs::build_catalog, pass 1 (one iteration of the first loop) *)

\* The bytes fs::read returns for the file at `path`
FileBytes(path) == [lit |-> FALSE, src |-> path, len |-> disk[path].len, bytes |-> << >>]

\* A push_children that puts the children at the front of the queue
push_children_front(q, idx, children) ==
    [k \in 1..Len(children) |-> << idx, children[k] >>] \o q

\* for child in children { queue.push_back((index, child)) }
push_children(q, idx, children) ==
    q \o [k \in 1..Len(children) |-> << idx, children[k] >>]

\* A directory entry that forgets its parent: parent_id stays at its default
dir_entry_no_parent(node, par) ==
    LET e0 == VDFSCatalogEntry_new(node.name)
        e1 == [e0 EXCEPT !.is_dir = TRUE, !.typ = U32Or(e0.typ, EntryType_Dir)]
    IN  IF node.is_last
        THEN [e1 EXCEPT !.typ = U32Or(e1.typ, EntryType_LastFile)]
        ELSE e1

dir_entry(node, par) ==
    LET e0 == VDFSCatalogEntry_new(node.name)
        e1 == [e0 EXCEPT !.is_dir = TRUE, !.typ = U32Or(e0.typ, EntryType_Dir)]
        e2 == IF node.is_last
              THEN [e1 EXCEPT !.typ = U32Or(e1.typ, EntryType_LastFile)]
              ELSE e1
    IN  [e2 EXCEPT !.parent_id = par]

file_entry(node, par, len) ==
    LET e0 == VDFSCatalogEntry_new_sized(node.name, len)
        e1 == [e0 EXCEPT !.is_dir = FALSE, !.parent_id = par]
    IN  IF node.is_last THEN [e1 EXCEPT !.typ = EntryType_LastFile] ELSE e1

BuildCatalogEnumerate ==
    /\ pc = "pass1"
    /\ queue # << >>
    /\ LET par == Head(queue)[1]
           node == Head(queue)[2]
       IN  IF Len(node.name) > NameWidth
           THEN \* copy_from_slice panics on a name longer than the field
                /\ Panic
                /\ UNCHANGED << catalog_dirs, data, queue, index >>
           ELSE IF node.kind = "Directory"
           THEN /\ catalog_dirs' = IF node # fs
                                   THEN Append(catalog_dirs, dir_entry(node, par))
                                   ELSE catalog_dirs
                /\ queue' = push_children(Tail(queue), index, node.children)
                /\ index' = index + 1
                /\ UNCHANGED << pc, exit_code, data, diagnostics >>
           ELSE \E io \in {"ok", "metadata_err", "read_err"} :
                  IF io = "metadata_err"
                  THEN /\ Halt(420)
                       /\ diagnostics' = Append(diagnostics, "ERROR: metadata")
                       /\ UNCHANGED << catalog_dirs, data, queue, index >>
                  ELSE /\ catalog_dirs' =
                             Append(catalog_dirs, file_entry(node, par, disk[node.path].len))
                       /\ IF io = "read_err"
                          THEN /\ Halt(69)
                               /\ diagnostics' = Append(diagnostics, "ERROR: read")
                               /\ UNCHANGED << data, queue, index >>
                          ELSE /\ data' = Append(data, FileBytes(node.path))
                               /\ queue' = Tail(queue)
                               /\ index' = index + 1
                               /\ UNCHANGED << pc, exit_code, diagnostics >>
    /\ UNCHANGED << disk, overflow_checks, path_filter, filtered, header, fs, curr_pos,
                    out_file, args, unreadable, first_run >>

\* The first loop is over: lines 378-381 set up the queue and counter of pass 2
BuildCatalogSecondPass ==
    /\ pc = "pass1"
    /\ queue = << >>
    /\ queue' = << fs >>
    /\ index' = -1
    /\ pc' = "pass2"
    /\ UNCHANGED << disk, exit_code, overflow_checks, path_filter, filtered, header, fs,
                    catalog_dirs, data, curr_pos, out_file,
                    args, unreadable, diagnostics, first_run >>

----------------------------------------------------------------------------
(* mod.rs: Vdfs::build_catalog, pass 2 (one iteration of the second loop) *)

\* The positions (from 1) of the entries whose parent_id, as u32, equals `level`
positions_of(catalog, level) ==
    { k \in 1..Len(catalog) : I32AsU32(catalog[k].parent_id) = level }

Min(S) == CHOOSE x \in S : \A y \in S : x <= y

Max(S) == CHOOSE x \in S : \A y \in S : x >= y

\* A find_index that takes the last match instead of the first
find_index_last(catalog, level) ==
    IF positions_of(catalog, level) = {}
    THEN W(0)
    ELSE W(Max(positions_of(catalog, level)) - 1)

\* A find_index that answers the number of entries when nothing matches
find_index_none_is_len(catalog, level) ==
    IF positions_of(catalog, level) = {}
    THEN W(Len(catalog))
    ELSE W(Min(positions_of(catalog, level)) - 1)

\* iter().position(..): the index (from 0) of the first match, or 0 if there is none
find_index(catalog, level) ==
    IF positions_of(catalog, level) = {}
    THEN W(0)
    ELSE W(Min(positions_of(catalog, level)) - 1)

BuildCatalogResolve ==
    /\ pc = "pass2"
    /\ queue # << >>
    /\ LET node == Head(queue)
       IN  IF node.kind = "Directory"
           THEN /\ catalog_dirs' =
                      IF node # fs
                      THEN [catalog_dirs EXCEPT ![index + 1].next_index =
                                find_index(catalog_dirs, I32AsU32(index))]
                      ELSE catalog_dirs
                /\ queue' = Tail(queue) \o node.children
           ELSE /\ queue' = Tail(queue)
                /\ UNCHANGED catalog_dirs
    /\ index' = index + 1
    /\ UNCHANGED << disk, pc, exit_code, overflow_checks, path_filter, filtered, header,
                    fs, data, curr_pos, out_file,
                    args, unreadable, diagnostics, first_run >>

----------------------------------------------------------------------------
(* mod.rs: Vdfs::build_catalog, lines 411-428: header counts and file offsets *)

\* A filter that forgets the files flagged as last of their group
is_plain_file_unflagged(e) == e.typ = W(0)

\* filter(|f| f.typ == 0 || f.typ == EntryType::LastFile as u32)
is_plain_file(e) == e.typ = W(0) \/ e.typ = EntryType_LastFile

\* The for_each over the plain-file entries, from position k on: every entry gets
\* catalog_offset + num_files * 80 + curr_pos, and curr_pos grows by its size.
\* `overflow` records that one of the u32 additions overflowed.
RECURSIVE assign_offsets(_, _, _, _, _)
assign_offsets(catalog, k, pos, base, overflow) ==
    IF k > Len(catalog)
    THEN [catalog |-> catalog, curr_pos |-> pos, overflow |-> overflow]
    ELSE IF ~is_plain_file(catalog[k])
    THEN assign_offsets(catalog, k + 1, pos, base, overflow)
    ELSE LET off == U32Add(base, pos)
             nxt == U32Add(pos, catalog[k].size)
         IN  assign_offsets([catalog EXCEPT ![k].next_index = off.val],
                            k + 1, nxt.val, base,
                            overflow \/ off.overflow \/ nxt.overflow)

BuildCatalogOffsets ==
    /\ pc = "pass2"
    /\ queue = << >>
    /\ LET final_num == Len(catalog_dirs)
           num_entries == Cardinality({ k \in 1..final_num : is_plain_file(catalog_dirs[k]) })
           base == WAdd(W(CatalogOffset), W(final_num * EntryWidth))
           r == assign_offsets(catalog_dirs, 1, curr_pos, base, FALSE)
       IN  /\ header' = [header EXCEPT !.catalog_offset = W(CatalogOffset),
                                       !.num_files = W(final_num),
                                       !.num_entries = W(num_entries)]
           /\ IF r.overflow /\ overflow_checks
              THEN \* "attempt to add with overflow"
                   /\ Panic
                   /\ UNCHANGED << catalog_dirs, curr_pos >>
              ELSE /\ catalog_dirs' = r.catalog
                   /\ curr_pos' = r.curr_pos
                   /\ pc' = "calc"
                   /\ UNCHANGED << exit_code, diagnostics >>
    /\ UNCHANGED << disk, overflow_checks, path_filter, filtered, fs, data, queue, index,
                    out_file, args, unreadable, first_run >>

----------------------------------------------------------------------------
(* mod.rs: Vdfs::calculate_data_size *)

\* iter().map(|entry| entry.size).sum() in u32
RECURSIVE sum_sizes(_, _, _)
sum_sizes(catalog, k, acc) ==
    IF k > Len(catalog)
    THEN acc
    ELSE LET s == U32Add(acc.val, catalog[k].size)
         IN  sum_sizes(catalog, k + 1,
                       [val |-> s.val, overflow |-> acc.overflow \/ s.overflow])

calculate_data_size(catalog) == sum_sizes(catalog, 1, [val |-> W(0), overflow |-> FALSE])

CalculateDataSize ==
    /\ pc = "calc"
    /\ LET r == calculate_data_size(catalog_dirs)
       IN  IF r.overflow /\ overflow_checks
           THEN /\ Panic
                /\ UNCHANGED header
           ELSE /\ header' = [header EXCEPT !.size = r.val]
                /\ pc' = "built"
                /\ \* from_script reports the end of the build (mod.rs:296)
                   diagnostics' = IF filtered
                                  THEN Append(diagnostics, "[INFO] Done")
                                  ELSE diagnostics
                /\ UNCHANGED exit_code
    /\ UNCHANGED << disk, overflow_checks, path_filter, filtered, fs, catalog_dirs, data,
                    curr_pos, queue, index, out_file, args, unreadable, first_run >>

----------------------------------------------------------------------------
(* mod.rs: Vdfs::add_comment *)

\* The comment given on the command line or in the script: none or empty, or "hi"
Comments == { << >>, << 104, 105 >> }

\* VDFSHeader::comment: self.comment[..cmnt.len()].copy_from_slice(cmnt.as_bytes())
comment(old, cmnt) ==
    copy_from_slice(old, cmnt)

AddComment ==
    /\ pc = "built"
    /\ \E cmnt \in Comments :
          IF Len(cmnt) > CommentWidth
          THEN /\ Panic
               /\ UNCHANGED header
          ELSE /\ header' = [header EXCEPT !.comment = comment(header.comment, cmnt)]
               /\ pc' = "commented"
               /\ UNCHANGED << exit_code, diagnostics >>
    /\ UNCHANGED << disk, overflow_checks, path_filter, filtered, fs, catalog_dirs, data,
                    curr_pos, queue, index, out_file, args, unreadable, first_run >>

----------------------------------------------------------------------------
(* mod.rs: Vdfs::save_to_file *)

\* The bytes most significant first
to_be_bytes(x) == << x[1] \div 256, x[1] % 256, x[2] \div 256, x[2] % 256 >>

\* u32::to_le_bytes
to_le_bytes(x) == << x[2] % 256, x[2] \div 256, x[1] % 256, x[1] \div 256 >>

\* One write_all of literal bytes
Lit(bytes) == [lit |-> TRUE, src |-> Root, len |-> W(Len(bytes)), bytes |-> bytes]

\* One write_all of a byte array
LitArray(a) == [lit |-> TRUE, src |-> Root, len |-> W(a.width), bytes |-> a]

header_chunks(h) ==
    << LitArray(h.comment), Lit(h.signature), Lit(to_le_bytes(h.num_files)),
       Lit(to_le_bytes(h.num_entries)), Lit(to_le_bytes(h.timestamp)),
       Lit(to_le_bytes(h.size)), Lit(to_le_bytes(h.catalog_offset)),
       Lit(to_le_bytes(h.version)) >>

entry_chunks(c) ==
    << LitArray(c.name), Lit(to_le_bytes(c.next_index)), Lit(to_le_bytes(c.size)),
       Lit(to_le_bytes(c.typ)), Lit(to_le_bytes(c.attributes)) >>

\* Everything save_to_file writes, in order
serialize(h, catalog, buffer) ==
    header_chunks(h)
        \o Flatten([k \in 1..Len(catalog) |-> entry_chunks(catalog[k])])
        \o buffer

\* The number of bytes in the first k chunks
RECURSIVE chunks_len(_, _)
chunks_len(chunks, k) ==
    IF k = 0 THEN W(0) ELSE WAdd(chunks_len(chunks, k - 1), chunks[k].len)

\* The chunk boundary at which a failing write leaves the file: header and
\* catalog are written, the data is not
TruncationPoints(catalog) == { 8 + 5 * Len(catalog) }

\* File::create makes or truncates the file; a file inside the input directory
\* shows on disk
written(output_file, chunks) ==
    IF output_file.inside
    THEN (output_file.path :> [kind |-> "file", len |-> chunks_len(chunks, Len(chunks))])
            @@ [p \in Paths \ {output_file.path} |-> disk[p]]
    ELSE disk

SaveToFile ==
    /\ pc = "commented"
    /\ \E io \in {"ok", "create_err", "write_err"} :
          LET output_file == output_file_used(args)
              chunks == serialize(header, catalog_dirs, data)
          IN  IF io = "create_err"
              THEN /\ Halt(1)
                   /\ diagnostics' = diagnostics \o << "[INFO] Writing", "Error" >>
                   /\ UNCHANGED << disk, out_file >>
              ELSE IF io = "write_err"
              THEN \E k \in TruncationPoints(catalog_dirs) :
                     /\ out_file' = << [path |-> output_file, chunks |-> SubSeq(chunks, 1, k)] >>
                     /\ disk' = written(output_file, SubSeq(chunks, 1, k))
                     /\ diagnostics' = diagnostics \o << "[INFO] Writing", "Error" >>
                     /\ Halt(1)
              ELSE /\ out_file' = << [path |-> output_file, chunks |-> chunks] >>
                   /\ disk' = written(output_file, chunks)
                   /\ diagnostics' = diagnostics \o << "[INFO] Writing", "[INFO] Done" >>
                   /\ pc' = "saved"
                   /\ UNCHANGED exit_code
    /\ UNCHANGED << overflow_checks, path_filter, filtered, header, fs, catalog_dirs, data,
                    curr_pos, queue, index, args, unreadable, first_run >>

\* The same command is given again after a run in legacy mode has ended well
Rerun ==
    /\ pc = "saved"
    /\ args.mode = "dir"
    /\ first_run = << >>
    /\ first_run' = << [catalog_dirs |-> catalog_dirs, data |-> data] >>
    /\ diagnostics' = << >>
    /\ pc' = "rerun"
    /\ UNCHANGED << disk, exit_code, overflow_checks, path_filter, filtered, header, fs,
                    catalog_dirs, data, curr_pos, queue, index, out_file, args, unreadable >>

Next ==
    \/ CreateDir
    \/ CreateFile
    \/ FromDir
    \/ FromScriptUsageError
    \/ FromScript
    \/ BuildCatalogEnumerate
    \/ BuildCatalogSecondPass
    \/ BuildCatalogResolve
    \/ BuildCatalogOffsets
    \/ CalculateDataSize
    \/ AddComment
    \/ SaveToFile

\* Small files, a release build
Spec == Init /\ [][Next]_vars

NextSizes ==
    \/ CreateDir
    \/ CreateLargeFile
    \/ FromDir
    \/ FromScriptUsageError
    \/ FromScript
    \/ BuildCatalogEnumerate
    \/ BuildCatalogSecondPass
    \/ BuildCatalogResolve
    \/ BuildCatalogOffsets
    \/ CalculateDataSize
    \/ AddComment
    \/ SaveToFile

\* Small and large files, a release or a debug build
SpecSizes == InitSizes /\ [][NextSizes]_vars

NextWide ==
    \/ CreateDirWide
    \/ CreateFileWide
    \/ FromDir
    \/ FromScriptUsageError
    \/ FromScript
    \/ BuildCatalogEnumerate
    \/ BuildCatalogSecondPass
    \/ BuildCatalogResolve
    \/ BuildCatalogOffsets
    \/ CalculateDataSize
    \/ AddComment
    \/ SaveToFile

\* Small files, a release build, one more node and one more level
SpecWide == Init /\ [][NextWide]_vars

NextArgs ==
    \/ CreateDirFew
    \/ CreateFileFew
    \/ FromDirAnyOutput
    \/ FromScriptUsageErrorAny
    \/ FromScriptAny
    \/ BuildCatalogEnumerate
    \/ BuildCatalogSecondPass
    \/ BuildCatalogResolve
    \/ BuildCatalogOffsets
    \/ CalculateDataSize
    \/ AddComment
    \/ SaveToFile

\* Fewer files, every combination of script values and overrides
SpecArgs == Init /\ [][NextArgs]_vars

NextRerun ==
    \/ CreateDir
    \/ CreateFile
    \/ FromDirAnyOutput
    \/ BuildCatalogEnumerate
    \/ BuildCatalogSecondPass
    \/ BuildCatalogResolve
    \/ BuildCatalogOffsets
    \/ CalculateDataSize
    \/ AddComment
    \/ SaveToFile
    \/ Rerun

\* Legacy mode, run once and then once more
SpecRerun == Init /\ [][NextRerun]_vars

NextLegacy ==
    \/ CreateDir
    \/ CreateFile
    \/ FromDir
    \/ BuildCatalogEnumerate
    \/ BuildCatalogSecondPass
    \/ BuildCatalogResolve
    \/ BuildCatalogOffsets
    \/ CalculateDataSize
    \/ AddComment
    \/ SaveToFile

\* Legacy mode, the whole directory packed once
SpecLegacy == Init /\ [][NextLegacy]_vars

----------------------------------------------------------------------------
(* Vocabulary of the properties *)

\* build_catalog has returned
CatalogBuilt == pc \in {"calc", "built", "commented", "saved"}

\* The tree has been built
TreeBuilt == pc \in {"pass1", "pass2", "calc", "built", "commented", "saved"}

Range(f) == { f[k] : k \in DOMAIN f }

\* The nodes below a node
RECURSIVE Descendants(_)
Descendants(n) == UNION { {c} \cup Descendants(c) : c \in Range(n.children) }

\* The directories of the tree, the root included
TreeDirectories == { n \in {fs} \cup Descendants(fs) : n.kind = "Directory" }

\* The nodes below the root level by level, every level in the order of the
\* level above and, under one parent, in the order of its children
RECURSIVE ByLevel(_)
ByLevel(level) ==
    IF level = << >> THEN << >>
    ELSE level \o ByLevel(Flatten([k \in 1..Len(level) |-> level[k].children]))

TreeOrder == ByLevel(fs.children)

\* The flat index (from 0) of the node at `path`
FlatIndex(path) == (CHOOSE k \in 1..Len(TreeOrder) : TreeOrder[k].path = path) - 1

\* The type bits of an entry
HasLastEntry(e) == (e.typ[1] \div 16384) % 2 = 1

HasDirectory(e) == (e.typ[1] \div 32768) % 2 = 1

\* Sorted sibling order: directories before files, then the name without regard
\* to case
NameLeq(a, b) == StrCmp(to_uppercase(a), to_uppercase(b)) # "Greater"

SiblingLeq(a_dir, a_name, b_dir, b_name) ==
    \/ a_dir /\ ~b_dir
    \/ a_dir = b_dir /\ NameLeq(a_name, b_name)

EntryLeq(a, b) == SiblingLeq(a.is_dir, a.name_utf8, b.is_dir, b.name_utf8)

\* The positions (from 1) of the entries recorded as children of `parent`
ChildrenOf(parent) == { k \in 1..Len(catalog_dirs) : catalog_dirs[k].parent_id = parent }

----------------------------------------------------------------------------
(* C1 *)

\* C1: after build_catalog, the next_index of every directory entry whose
\* directory has a child in the tree is the flat index of its first child: the
\* lowest flat index whose parent_id is the directory's own flat index, and an
\* entry that no sibling precedes in sorted sibling order.
C1_NextIndexIsFirstChild ==
    CatalogBuilt =>
        \A i \in 1..Len(catalog_dirs) :
            (catalog_dirs[i].is_dir /\ TreeOrder[i].children # << >>) =>
                LET first == FlatIndex(TreeOrder[i].children[1].path)
                IN  /\ catalog_dirs[i].next_index = W(first)
                    /\ ChildrenOf(i - 1) # {}
                    /\ first + 1 = Min(ChildrenOf(i - 1))
                    /\ \A k \in ChildrenOf(i - 1) :
                          EntryLeq(catalog_dirs[first + 1], catalog_dirs[k])

\* A directory with a directory child and a file child whose name sorts first,
\* its next_index resolved to the directory child
C1_Witness ==
    /\ CatalogBuilt
    /\ \E i \in 1..Len(catalog_dirs) :
          /\ catalog_dirs[i].is_dir
          /\ ChildrenOf(i - 1) # {}
          /\ catalog_dirs[i].next_index = W(Min(ChildrenOf(i - 1)) - 1)
          /\ \E k, m \in ChildrenOf(i - 1) :
                /\ catalog_dirs[k].is_dir
                /\ ~catalog_dirs[m].is_dir
                /\ k < m
                /\ StrCmp(to_uppercase(catalog_dirs[m].name_utf8),
                          to_uppercase(catalog_dirs[k].name_utf8)) = "Less"

----------------------------------------------------------------------------
(* C2 *)

\* The value of a u32 below 2^16
Small(x) == x[2]

\* The names of the entries at positions s..e
EntryNames(s, e) == [k \in 1..(e - s + 1) |-> catalog_dirs[s + k - 1].name_utf8]

NodeNames(nodes) == [k \in 1..Len(nodes) |-> nodes[k].name]

\* C2: after build_catalog, the children of every directory of the tree, the root
\* included, fill a run of consecutive flat indices in sorted sibling order; the
\* run starts at the directory's next_index (at 0 for the root) and ends at the
\* first entry from there on that carries LastEntry, so that the scan visits this
\* directory's children and no other entry.
C2_ChildrenContiguous ==
    CatalogBuilt =>
        \A d \in TreeDirectories :
            d.children # << >> =>
                LET parent == IF d = fs THEN -1 ELSE FlatIndex(d.path)
                    start == IF d = fs THEN 1
                             ELSE Small(catalog_dirs[parent + 1].next_index) + 1
                    lasts == { k \in start..Len(catalog_dirs) : HasLastEntry(catalog_dirs[k]) }
                IN  /\ d # fs => catalog_dirs[parent + 1].next_index[1] = 0
                    /\ lasts # {}
                    /\ ChildrenOf(parent) = start..Min(lasts)
                    /\ EntryNames(start, Min(lasts)) = NodeNames(d.children)
                    /\ \A k, m \in ChildrenOf(parent) :
                          k < m => EntryLeq(catalog_dirs[k], catalog_dirs[m])

\* The root has a directory and another entry after it, and the directory has a
\* child: the child's run lies behind the run of the root's children
C2_Witness ==
    /\ CatalogBuilt
    /\ Cardinality(ChildrenOf(-1)) >= 2
    /\ catalog_dirs[1].is_dir
    /\ ChildrenOf(0) # {}
    /\ Min(ChildrenOf(0)) > Max(ChildrenOf(-1))

----------------------------------------------------------------------------
(* C3 *)

\* C3: in every sibling group of the tree, filtered or not, the last member in
\* sort order and no other has is_last; in the catalog the last entry of every
\* group of entries with one parent, and no other, carries LastEntry.
C3_ExactlyLastFlagged ==
    /\ TreeBuilt =>
          \A d \in TreeDirectories :
             \A k \in 1..Len(d.children) :
                /\ d.children[k].is_last <=> k = Len(d.children)
                /\ SiblingLeq(d.children[k].kind = "Directory", d.children[k].name,
                              d.children[Len(d.children)].kind = "Directory",
                              d.children[Len(d.children)].name)
    /\ CatalogBuilt =>
          \A parent \in -1..(Len(catalog_dirs) - 1) :
             \A k \in ChildrenOf(parent) :
                /\ HasLastEntry(catalog_dirs[k]) <=> k = Max(ChildrenOf(parent))
                /\ EntryLeq(catalog_dirs[k], catalog_dirs[Max(ChildrenOf(parent))])
                /\ HasLastEntry(catalog_dirs[k]) <=> TreeOrder[k].is_last

\* A filtered build with a group of a directory and a file under the root, and a
\* group of one below the directory
C3_Witness ==
    /\ CatalogBuilt
    /\ filtered
    /\ Cardinality(ChildrenOf(-1)) = 2
    /\ Cardinality(ChildrenOf(0)) = 1
    /\ ~HasLastEntry(catalog_dirs[1])
    /\ HasLastEntry(catalog_dirs[2])
    /\ HasLastEntry(catalog_dirs[3])

----------------------------------------------------------------------------
(* C7 *)

\* C7: for every built archive, header num_files is the number of catalog
\* entries and header num_entries is the number of entries whose type has the
\* Directory bit clear; the type of such an entry is 0 or LastEntry.
C7_HeaderCounts ==
    CatalogBuilt =>
        /\ header.num_files = W(Len(catalog_dirs))
        /\ header.num_entries =
              W(Cardinality({ k \in 1..Len(catalog_dirs) : ~HasDirectory(catalog_dirs[k]) }))
        /\ \A k \in 1..Len(catalog_dirs) :
              ~HasDirectory(catalog_dirs[k]) <=>
                  catalog_dirs[k].typ \in { W(0), EntryType_LastFile }

\* A catalog of a directory, a file that is not last and a file that is last
C7_Witness ==
    /\ CatalogBuilt
    /\ header.num_files = W(3)
    /\ header.num_entries = W(2)
    /\ \E k \in 1..3 : catalog_dirs[k].typ = W(0)
    /\ \E k \in 1..3 : catalog_dirs[k].typ = EntryType_LastFile

----------------------------------------------------------------------------
(* C8 *)

\* C8: in every Directory node of the tree, filtered or not, no file comes before
\* a directory, and the names of the directories, and of the files, ascend
\* without regard to case.
C8_ChildrenSorted ==
    TreeBuilt =>
        \A d \in TreeDirectories :
           \A k, m \in 1..Len(d.children) :
              k < m =>
                 /\ ~(d.children[k].kind = "File" /\ d.children[m].kind = "Directory")
                 /\ d.children[k].kind = d.children[m].kind =>
                       NameLeq(d.children[k].name, d.children[m].name)

\* Files "a" and "B" and a directory under one parent: by byte "B" sorts before
\* "a", without regard to case "a" before "B", and the directory comes first
C8_Witness ==
    /\ TreeBuilt
    /\ \E d \in TreeDirectories :
          /\ Len(d.children) = 3
          /\ d.children[1].kind = "Directory"
          /\ d.children[2].kind = "File" /\ d.children[2].name = <<97>>
          /\ d.children[3].kind = "File" /\ d.children[3].name = <<66>>

----------------------------------------------------------------------------
(* C9 *)

\* The proper, non-empty prefixes of a path together with the path itself
Prefixes(p) == { SubSeq(p, 1, k) : k \in 1..Len(p) }

\* Some filter sequence has, at the depth of the last component of `p`, a
\* component equal to it without regard to case
MatchesAtDepth(p) ==
    \E f \in path_filter :
        /\ Len(f) >= Len(p)
        /\ eq_ignore_ascii_case(f[Len(p)], p[Len(p)])

\* C9: in a filtered build every node below the root is at the depth its level
\* says and matches some filter sequence at that depth, and so does every
\* directory above it: the builder has descended only into included directories.
\* The root is in the tree whatever the filter.
C9_IncludedOnlyIfMatchAtDepth ==
    (TreeBuilt /\ filtered) =>
        /\ fs.path = Root
        /\ \A n \in Descendants(fs) :
              /\ n.level = Len(n.path) - 1
              /\ n.name = n.path[Len(n.path)]
              /\ \A q \in Prefixes(n.path) : MatchesAtDepth(q)

\* A filtered build that kept a file below a directory and dropped another entry
\* of the root
C9_Witness ==
    /\ TreeBuilt
    /\ filtered
    /\ \E n \in Descendants(fs) : n.level = 1 /\ n.kind = "File"
    /\ \E p \in Paths : Len(p) = 1 /\ \A n \in Descendants(fs) : n.path # p

----------------------------------------------------------------------------
(* C4 *)

\* The positions of the plain-file entries
FileEntries == { k \in 1..Len(catalog_dirs) : ~HasDirectory(catalog_dirs[k]) }

\* The sum of the sizes of the plain-file entries before position k
RECURSIVE SizeBefore(_)
SizeBefore(k) ==
    IF k <= 1 THEN W(0)
    ELSE IF (k - 1) \in FileEntries
    THEN WAdd(SizeBefore(k - 1), catalog_dirs[k - 1].size)
    ELSE SizeBefore(k - 1)

\* C4: after build_catalog, the next_index of every plain-file entry is
\* catalog_offset (296) + num_files * 80 + the sum of the sizes of the plain-file
\* entries before it; so from one plain-file entry to a later one next_index
\* grows by at least the size of the first, and by exactly that between a file
\* entry and the next file entry.
C4_FileOffsets ==
    CatalogBuilt =>
        /\ header.catalog_offset = W(CatalogOffset)
        /\ \A i \in FileEntries :
              catalog_dirs[i].next_index =
                  WAdd(W(CatalogOffset + Len(catalog_dirs) * EntryWidth), SizeBefore(i))
        /\ \A i, j \in FileEntries :
              i < j =>
                 /\ WLeq(WAdd(catalog_dirs[i].next_index, catalog_dirs[i].size),
                         catalog_dirs[j].next_index)
                 /\ (\A m \in FileEntries : ~(i < m /\ m < j)) =>
                       catalog_dirs[j].next_index =
                           WAdd(catalog_dirs[i].next_index, catalog_dirs[i].size)

----------------------------------------------------------------------------
(* C5 *)

\* The chunks of the written file
Written == out_file[1].chunks

\* C5: in a written archive the bytes from next_index to next_index + size of
\* every file entry are the content of its file, all of it; the data buffer holds
\* the contents of the files in the order of their entries in the catalog.
C5_FileBytesAtOffset ==
    pc = "saved" =>
        /\ \A i \in FileEntries :
              \E c \in 1..Len(Written) :
                 /\ ~Written[c].lit
                 /\ Written[c].src = TreeOrder[i].path
                 /\ chunks_len(Written, c - 1) = catalog_dirs[i].next_index
                 /\ Written[c].len = catalog_dirs[i].size
                 /\ Written[c].len = disk[TreeOrder[i].path].len
        /\ Len(data) = Cardinality(FileEntries)
        /\ \A c, e \in 1..Len(data) :
              c < e => FlatIndex(data[c].src) < FlatIndex(data[e].src)

----------------------------------------------------------------------------
(* C6 *)

\* C6: for every built archive header size is the sum of the sizes of the
\* plain-file entries.
C6_HeaderSizeIsSum ==
    pc \in {"built", "commented", "saved"} =>
        header.size = SizeBefore(Len(catalog_dirs) + 1)

----------------------------------------------------------------------------
(* C10 *)

\* The path `p` agrees, component by component and without regard to case, with
\* the leading components of the filter sequence `f`
IsPrefixIgnoreCase(p, f) ==
    /\ Len(f) >= Len(p)
    /\ \A k \in 1..Len(p) : eq_ignore_ascii_case(f[k], p[k])

\* C10: in a filtered build every node kept lies on one accepted path: the names
\* on its path agree with the leading components of a single filter sequence.
C10_KeptOnlyOnAcceptedPath ==
    (TreeBuilt /\ filtered) =>
        \A n \in Descendants(fs) : \E f \in path_filter : IsPrefixIgnoreCase(n.path, f)

----------------------------------------------------------------------------
(* C11 *)

\* The metadata or the content of a file could not be read
ReadFailed ==
    \E k \in DOMAIN diagnostics : diagnostics[k] \in {"ERROR: metadata", "ERROR: read"}

\* build_catalog and calculate_data_size have run to their end: both queues are
\* used up, every node has its entry, every file its bytes, and the header its
\* counts and its size
BuildComplete ==
    /\ queue = << >>
    /\ Len(catalog_dirs) = Len(TreeOrder)
    /\ Len(data) = Cardinality(FileEntries)
    /\ header.catalog_offset = W(CatalogOffset)
    /\ header.num_files = W(Len(catalog_dirs))
    /\ header.size = SizeBefore(Len(catalog_dirs) + 1)

\* C11: once the metadata or the content of a file could not be read, the
\* program has ended with a status other than 0 and no output file exists or was
\* written; save_to_file is entered, and an output file written, only after
\* build_catalog and calculate_data_size have run to their end without error.
C11_ReadFailureAborts ==
    /\ ReadFailed =>
          /\ pc = "exit"
          /\ exit_code # 0
          /\ out_file = << >>
          /\ OutDefault.path \notin Paths
    /\ (pc \in {"commented", "saved"} \/ out_file # << >>) =>
          /\ ~ReadFailed
          /\ BuildComplete

\* The content of the second file of a directory could not be read
C11_Witness ==
    /\ pc = "exit"
    /\ exit_code = 69
    /\ ReadFailed
    /\ Len(catalog_dirs) = 3
    /\ Len(data) = 1
    /\ out_file = << >>

----------------------------------------------------------------------------
(* C12 *)

\* The u32 that four bytes encode, least significant byte first
FromLE(b) == << b[3] + 256 * b[4], b[1] + 256 * b[2] >>

\* The chunk is these literal bytes
IsBytes(c, bytes) == c.lit /\ c.bytes = bytes /\ c.len = W(Len(bytes))

\* The chunk is this byte array, all of its width
IsArray(c, a) == c.lit /\ c.bytes = a /\ c.len = W(a.width)

\* The chunk is the four bytes of this u32, least significant first
IsLE(c, x) == c.lit /\ Len(c.bytes) = 4 /\ c.len = W(4) /\ FromLE(c.bytes) = x

\* The number of chunks before the k-th record of the catalog: the header is
\* written in 8 chunks and every record in 5
RecordAt(k) == 8 + 5 * (k - 1)

\* C12: a written archive is, in this order and nothing else, the header of 296
\* bytes (comment of 256 bytes, signature of 16 bytes, then num_files,
\* num_entries, timestamp, size, catalog_offset and version as 4 bytes each, least
\* significant byte first), one record of 80 bytes for every catalog entry in
\* breadth-first order (name of 64 bytes, then next_index, size, type and
\* attributes as 4 bytes each, least significant byte first), and the data
\* buffer; the catalog starts at byte catalog_offset and the data at byte
\* catalog_offset + 80 * num_files.
C12_Layout ==
    pc = "saved" =>
        LET n == Len(catalog_dirs)
            order == TreeOrder
        IN  /\ Len(Written) = RecordAt(n + 1) + Len(data)
            /\ IsArray(Written[1], header.comment) /\ header.comment.width = 256
            /\ IsBytes(Written[2], Signature) /\ Len(Signature) = 16
            /\ IsLE(Written[3], header.num_files)
            /\ IsLE(Written[4], header.num_entries)
            /\ IsLE(Written[5], header.timestamp)
            /\ IsLE(Written[6], header.size)
            /\ IsLE(Written[7], header.catalog_offset)
            /\ IsLE(Written[8], header.version)
            /\ chunks_len(Written, RecordAt(1)) = W(296)
            /\ n = Len(order)
            /\ \A k \in 1..n :
                  /\ IsArray(Written[RecordAt(k) + 1], catalog_dirs[k].name)
                  /\ catalog_dirs[k].name.width = 64
                  /\ catalog_dirs[k].name.text =
                        [j \in 1..Len(order[k].name) |-> UpperChar(order[k].name[j])]
                  /\ catalog_dirs[k].name.fill = 32
                  /\ IsLE(Written[RecordAt(k) + 2], catalog_dirs[k].next_index)
                  /\ IsLE(Written[RecordAt(k) + 3], catalog_dirs[k].size)
                  /\ IsLE(Written[RecordAt(k) + 4], catalog_dirs[k].typ)
                  /\ IsLE(Written[RecordAt(k) + 5], catalog_dirs[k].attributes)
                  /\ chunks_len(Written, RecordAt(k + 1)) = W(296 + 80 * k)
            /\ SubSeq(Written, RecordAt(n + 1) + 1, Len(Written)) = data
            /\ chunks_len(Written, RecordAt(1)) = FromLE(Written[7].bytes)
            /\ FromLE(Written[3].bytes) = W(n)
            /\ chunks_len(Written, RecordAt(n + 1)) =
                  WAdd(FromLE(Written[7].bytes), W(80 * Small(FromLE(Written[3].bytes))))

\* A written archive of a directory and two files
C12_Witness ==
    /\ pc = "saved"
    /\ Len(catalog_dirs) = 3
    /\ catalog_dirs[1].is_dir
    /\ Len(data) = 2
    /\ Len(Written) = 25

----------------------------------------------------------------------------
(* C13 *)

\* The line is among those printed
Printed(line) == \E k \in DOMAIN diagnostics : diagnostics[k] = line

\* Neither the script nor an override names a base directory / an output file
NoBaseDir == args.base_dir = None /\ args.base_directory = None

NoOutputFile == args.file_path = None /\ args.output_file = None

\* No tree has been built, no catalog, and nothing has been written
NothingDone ==
    /\ ~filtered
    /\ fs = DirectoryNode(RootName, Root, << >>, -1)
    /\ catalog_dirs = << >>
    /\ out_file = << >>

\* C13: started on a script that names no base directory while no override does,
\* or that names no output file while no override does, the program has ended
\* with a status other than 0 and has built no tree and written nothing.  An empty
\* value in the script is reported only when the override is missing as well; the
\* tree is built from the override's directory when there is one and from the
\* script's otherwise, and the archive is written to the override's file when
\* there is one and to the script's otherwise.
C13_UsageErrorsAndOverrides ==
    args.mode = "script" =>
        /\ (NoBaseDir \/ NoOutputFile) =>
              /\ pc = "exit"
              /\ exit_code # 0
              /\ NothingDone
        /\ Printed("[ERROR] Empty base directory path") <=> NoBaseDir
        /\ Printed("[ERROR] Empty output path") <=> (~NoBaseDir /\ NoOutputFile)
        /\ TreeBuilt =>
              /\ filtered
              /\ fs.path = IF args.base_directory # None
                           THEN args.base_directory[1]
                           ELSE args.base_dir[1]
        /\ out_file # << >> =>
              out_file[1].path = IF args.output_file # None
                                 THEN args.output_file[1]
                                 ELSE args.file_path[1]

\* An archive written with both overrides: the script names another base
\* directory and no output file
C13_Witness ==
    /\ pc = "saved"
    /\ args.mode = "script"
    /\ args.base_dir = << Elsewhere >>
    /\ args.base_directory = << Root >>
    /\ args.file_path = None
    /\ args.output_file = << OutOverride >>
    /\ fs.path = Root
    /\ Len(catalog_dirs) = 2
    /\ out_file[1].path = OutOverride

----------------------------------------------------------------------------
(* C14 *)

\* The paths of the disk that lie below `p`
Below(p) == { q \in Paths : Len(q) > Len(p) /\ SubSeq(q, 1, Len(p)) = p }

\* The paths of the nodes of the tree, the root left out
TreePaths == { n.path : n \in Descendants(fs) }

\* The walk of legacy mode has just ended: nothing but the walk has printed yet
WalkEnded == pc = "pass1" /\ args.mode = "dir"

\* The walk met a directory it could not list
MetUnreadable == \E u \in unreadable : u = Root \/ u \in TreePaths

\* Every directory that cannot be listed is in the tree without children, and
\* everything that does not lie below such a directory is in the tree
SkippedRestBuilt ==
    /\ \A d \in TreeDirectories : d.path \in unreadable => d.children = << >>
    /\ \A q \in Paths :
          (\A u \in unreadable : q \notin Below(u)) => q \in TreePaths

\* C14: when the walk of legacy mode has met a directory that cannot be listed,
\* it has printed a diagnostic, has left that directory without children and has
\* built everything that does not lie below it.
C14_UnreadableSkippedWithDiagnostic ==
    (WalkEnded /\ MetUnreadable) =>
        /\ diagnostics # << >>
        /\ SkippedRestBuilt

----------------------------------------------------------------------------
(* C15 *)

\* The first loop of build_catalog has run to its end
Pass1Done == pc \in {"pass2", "calc", "built", "commented", "saved"}

\* The path of the directory that holds `path`
ParentPath(path) == SubSeq(path, 1, Len(path) - 1)

\* Entry k is the entry of the k-th node in level order
EntryOfNode(k) ==
    LET e == catalog_dirs[k]
        n == TreeOrder[k]
    IN  /\ e.name_utf8 = n.name
        /\ e.is_dir <=> n.kind = "Directory"
        /\ IF ParentPath(n.path) = fs.path
           THEN e.parent_id = -1
           ELSE /\ e.parent_id = FlatIndex(ParentPath(n.path))
                /\ e.parent_id >= 0
                /\ e.parent_id < k - 1
                /\ catalog_dirs[e.parent_id + 1].is_dir

\* C15: the first loop of build_catalog appends the entries of the nodes below
\* the root in level order, one entry a node and none for the root: at any time
\* entry k (flat index k - 1) is the entry of the k-th node in level order, with
\* parent_id -1 for a child of the root and otherwise the flat index of the entry
\* of its parent directory, which is smaller than its own; when the loop has
\* ended there are as many entries as nodes below the root.
C15_Pass1LevelOrder ==
    TreeBuilt =>
        /\ Len(catalog_dirs) <= Len(TreeOrder)
        /\ \A k \in 1..Len(catalog_dirs) : EntryOfNode(k)
        /\ Pass1Done =>
              /\ Len(catalog_dirs) = Len(TreeOrder)
              /\ Len(TreeOrder) = Cardinality(Descendants(fs))

\* Two directories under the root, the second with a child: the child comes
\* after both and names the second directory as its parent
C15_Witness ==
    /\ Pass1Done
    /\ Len(catalog_dirs) = 3
    /\ catalog_dirs[1].is_dir /\ catalog_dirs[1].parent_id = -1
    /\ catalog_dirs[2].is_dir /\ catalog_dirs[2].parent_id = -1
    /\ catalog_dirs[3].parent_id = 1

----------------------------------------------------------------------------
(* C16 *)

\* The entries of the directories whose tree node has no children
ChildlessDirs ==
    { k \in 1..Len(catalog_dirs) :
        TreeOrder[k].kind = "Directory" /\ TreeOrder[k].children = << >> }

\* C16: after build_catalog, for the entry of a directory without children in
\* the tree no entry names it as its parent, find_index finds nothing for it, and
\* its next_index is 0.
C16_ChildlessDirKeepsZero ==
    CatalogBuilt =>
        \A k \in ChildlessDirs :
            /\ catalog_dirs[k].is_dir
            /\ ChildrenOf(k - 1) = {}
            /\ positions_of(catalog_dirs, I32AsU32(k - 1)) = {}
            /\ catalog_dirs[k].next_index = W(0)

\* A directory without children at flat index 1, behind a directory with a child
C16_Witness ==
    /\ CatalogBuilt
    /\ Len(catalog_dirs) = 3
    /\ 2 \in ChildlessDirs
    /\ catalog_dirs[1].is_dir
    /\ catalog_dirs[3].parent_id = 0
    /\ catalog_dirs[2].next_index = W(0)

----------------------------------------------------------------------------
(* C17 *)

\* C17: after build_catalog, the entry of a directory has next_index 0 exactly
\* when the directory has no children in the tree; the entry of a directory with
\* children has a next_index above its own flat index, the flat index of its
\* first child, and the entry at flat index 0 is a child of the root.
C17_ZeroIffChildless ==
    CatalogBuilt =>
        /\ \A k \in 1..Len(catalog_dirs) :
              catalog_dirs[k].is_dir =>
                 /\ catalog_dirs[k].next_index = W(0) <=> k \in ChildlessDirs
                 /\ k \notin ChildlessDirs =>
                       /\ catalog_dirs[k].next_index[1] = 0
                       /\ Small(catalog_dirs[k].next_index) > k - 1
                       /\ Small(catalog_dirs[k].next_index) + 1 \in ChildrenOf(k - 1)
        /\ catalog_dirs # << >> => catalog_dirs[1].parent_id = -1

\* The directory at flat index 0 has a child at flat index 1
C17_Witness ==
    /\ CatalogBuilt
    /\ Len(catalog_dirs) >= 2
    /\ catalog_dirs[1].is_dir
    /\ catalog_dirs[1].next_index = W(1)
    /\ catalog_dirs[2].parent_id = 0

----------------------------------------------------------------------------
(* C18 *)

\* The catalog of the second run is built; the first run has left it on record
SecondBuilt == first_run # << >> /\ CatalogBuilt

\* The fields of an entry that the archive shows
Listed(e) ==
    [name |-> e.name, typ |-> e.typ, next_index |-> e.next_index, size |-> e.size]

ListedCatalog(catalog) == [k \in 1..Len(catalog) |-> Listed(catalog[k])]

\* C18: two builds of one directory tree, the archive written outside of it, give
\* the same catalog (order, names, type flags, next_index, sizes) and the same
\* data, whatever the order in which the file system enumerates the entries.
C18_EnumerationOrderIrrelevant ==
    (SecondBuilt /\ args.output_file # None) =>
        /\ ListedCatalog(catalog_dirs) = ListedCatalog(first_run[1].catalog_dirs)
        /\ data = first_run[1].data

----------------------------------------------------------------------------
(* C19 *)

\* C19: in legacy mode without -o the archive is written to DEFAULT.VDF in the
\* input directory, and a second run on the directory, nothing else changed in
\* it, builds the catalog and the data of the first run: the archive of the first
\* run is not packed into the second.
C19_RerunBuildsSameArchive ==
    (args.mode = "dir" /\ args.output_file = None) =>
        /\ out_file # << >> => out_file[1].path = OutDefault
        /\ SecondBuilt =>
              /\ \A k \in 1..Len(catalog_dirs) : catalog_dirs[k].name_utf8 # DefaultVdf
              /\ Len(catalog_dirs) = Len(first_run[1].catalog_dirs)
              /\ data = first_run[1].data

====
